---- MODULE Spec2Model ----
(***************************************************************************)
(* Model of shall (src/src/main.rs): one invocation of the digest tool.    *)
(* The run is a linear pipeline: Args::parse, main's dispatch on the input *)
(* source, then either process_directory or a single payload read followed *)
(* by calculate_hashes.  Everything the process does that is observable    *)
(* (I/O calls with their outcome, stdout chunks, stderr messages) is       *)
(* appended to run.log in program order.  `twin` is the same invocation    *)
(* with the verbose flag flipped, driven by the same I/O outcomes.         *)
(***************************************************************************)
EXTENDS Integers, Sequences, FiniteSets, TLC

VARIABLES args, run, twin

vars == <<args, run, twin>>

\* ---------------------------------------------------------------- bounds
\* Largest number of entries a modelled directory listing yields.
MaxEntries == 2

\* ------------------------------------------------------------ data types
\* Option<T>: None is <<>>, Some(x) is <<x>>.
None == <<>>
Some(x) == <<x>>
IsSome(o) == o /= <<>>
Unwrap(o) == o[1]

\* Byte payloads a file / stdin read can return.
Payloads == {<<>>, <<97>>}
\* The positional literal, when given ("abc" as UTF-8 bytes).
Literals == {<<97, 98, 99>>}
\* Path arguments (opaque).
FilePaths == {"f"}
DirPaths == {"d"}
\* Entry base names as OS byte strings: "a", "b" and one that is not UTF-8.
Names == {<<97>>, <<98>>, <<255>>}
\* What an entry's path is: a directory (or link to one), a regular file,
\* or any other non-directory (link to a file, device, fifo).
Kinds == {"dir", "file", "other"}

Algorithms == {"SHA1", "SHA256", "SHA512", "MD5"}

\* struct Args after clap has filled it in.
ArgsSet ==
  [sha1 : BOOLEAN, sha256 : BOOLEAN, sha512 : BOOLEAN, md5 : BOOLEAN,
   file : {None} \cup {Some(p) : p \in FilePaths},
   directory : {None} \cup {Some(p) : p \in DirPaths},
   stdin : BOOLEAN, verbose : BOOLEAN,
   input : {None} \cup {Some(s) : s \in Literals}]

\* #[arg(required_unless_present_any = ["file", "stdin", "directory"])]
ParseOk_mut(a) == TRUE

ParseOk(a) ==
  IsSome(a.input) \/ IsSome(a.file) \/ a.stdin \/ IsSome(a.directory)

\* ------------------------------------------------------------ log events
Ev(kind, nl, label, subject, body) ==
  [kind |-> kind, nl |-> nl, label |-> label, subject |-> subject, body |-> body]

\* An I/O call: its outcome ("ok" / "err"), the path or name it was made
\* on, and what it returned.
Io(kind, outcome, what, got) == Ev(kind, FALSE, <<outcome>>, what, got)
\* Advisory text on stdout: println! (nl) or print! (no nl).
Note(nl, text) == Ev("note", nl, <<>>, <<>>, text)
\* A message on stderr.
Stderr(class) == Ev("stderr", TRUE, <<class>>, <<>>, <<>>)

\* The digest primitives are external pure functions; a digest is kept
\* symbolically as (algorithm, bytes), and its hex encoding wraps it.
Digest(alg, data) == [alg |-> alg, of |-> data]
HexEncode(hash) == [hex |-> hash]

\* The subject column holds bytes: "-" and "unknown" in ASCII.
Dash == <<45>>
Unknown == <<117, 110, 107, 110, 111, 119, 110>>

\* println!("{} | {} | {}", name, "-", hex::encode(hash))
print_hash(name, hash) == Ev("digest", TRUE, name, Dash, HexEncode(hash))

\* println!("{} | {} | {}", name, file, hex::encode(hash))
print_file_hash(name, file, hash) == Ev("digest", TRUE, name, file, HexEncode(hash))

\* The label literals passed to print_hash by calculate_hashes.
PaddedLabel_mut(alg) ==
  CASE alg = "SHA1" -> <<"S", "H", "A", "1", " ", " ", " ", " ">>
    [] alg = "SHA256" -> <<"S", "H", "A", "2", "5", "6", " ", " ">>
    [] alg = "SHA512" -> <<"S", "H", "A", "5", "1", "2", " ", " ">>
    [] alg = "MD5" -> <<"M", "D", "5">>

PaddedLabel(alg) ==
  CASE alg = "SHA1" -> <<"S", "H", "A", "1", " ", " ", " ", " ">>
    [] alg = "SHA256" -> <<"S", "H", "A", "2", "5", "6", " ", " ">>
    [] alg = "SHA512" -> <<"S", "H", "A", "5", "1", "2", " ", " ">>
    [] alg = "MD5" -> <<"M", "D", "5", " ", " ", " ", " ", " ">>

\* The label literals passed to print_file_hash by process_directory.
BareLabel(alg) ==
  CASE alg = "SHA1" -> <<"S", "H", "A", "1">>
    [] alg = "SHA256" -> <<"S", "H", "A", "2", "5", "6">>
    [] alg = "SHA512" -> <<"S", "H", "A", "5", "1", "2">>
    [] alg = "MD5" -> <<"M", "D", "5">>

\* ------------------------------------------------------- calculate_hashes
\* let show_all = !args.sha1 && !args.sha256 && !args.sha512 && !args.md5;
show_all_mut(a) == ~a.sha1 /\ ~a.sha256 /\ ~a.sha512

show_all(a) == ~a.sha1 /\ ~a.sha256 /\ ~a.sha512 /\ ~a.md5

\* One "if show_all || args.X { ... }" block of calculate_hashes.
HashBlock_mut(data, a, flag, alg) ==
  IF show_all(a) \/ flag
    THEN (IF a.verbose THEN <<Note(TRUE, <<"Calculating ", alg, "... ">>)>>
          ELSE <<print_hash(PaddedLabel(alg), Digest(alg, data))>>)
    ELSE <<>>

HashBlock(data, a, flag, alg) ==
  IF show_all(a) \/ flag
    THEN (IF a.verbose THEN <<Note(FALSE, <<"Calculating ", alg, "... ">>)>> ELSE <<>>)
         \o <<print_hash(PaddedLabel(alg), Digest(alg, data))>>
    ELSE <<>>

\* What calculate_hashes writes to stdout, in program order.
calculate_hashes_mut(data, a) ==
  (IF a.verbose THEN <<Note(TRUE, <<"Input size: ", Len(data), " bytes">>)>> ELSE <<>>)
  \o HashBlock(data, a, a.md5, "MD5")
  \o HashBlock(data, a, a.sha1, "SHA1")
  \o HashBlock(data, a, a.sha256, "SHA256")
  \o HashBlock(data, a, a.sha512, "SHA512")

calculate_hashes(data, a) ==
  (IF a.verbose THEN <<Note(TRUE, <<"Input size: ", Len(data), " bytes">>)>> ELSE <<>>)
  \o HashBlock(data, a, a.sha1, "SHA1")
  \o HashBlock(data, a, a.sha256, "SHA256")
  \o HashBlock(data, a, a.sha512, "SHA512")
  \o HashBlock(data, a, a.md5, "MD5")

\* ------------------------------------------------------ process_directory
\* hash_flags.iter().filter(|&&x| x).count()
selected_count_mut(a) ==
  IF a.sha1 \/ a.sha256 \/ a.sha512 \/ a.md5 THEN 1 ELSE 0

selected_count(a) ==
  (IF a.sha1 THEN 1 ELSE 0) + (IF a.sha256 THEN 1 ELSE 0)
  + (IF a.sha512 THEN 1 ELSE 0) + (IF a.md5 THEN 1 ELSE 0)

\* path.is_dir()
is_dir(kind) == kind = "dir"

\* OsStr::to_str: Some when the bytes are valid UTF-8.  The modelled names
\* are single bytes, which are valid UTF-8 exactly when below 0x80.
to_str(n) == IF \A i \in 1..Len(n) : n[i] < 128 THEN Some(n) ELSE None

\* path.file_name().and_then(|n| n.to_str()).unwrap_or("unknown")
file_name_mut(n) == n

file_name(n) == IF IsSome(to_str(n)) THEN Unwrap(to_str(n)) ELSE Unknown

\* The if / else-if chain on args.sha1, args.sha256, args.sha512, args.md5.
print_entry(a, n, data) ==
  IF a.sha1 THEN <<print_file_hash(BareLabel("SHA1"), file_name(n), Digest("SHA1", data))>>
  ELSE IF a.sha256 THEN <<print_file_hash(BareLabel("SHA256"), file_name(n), Digest("SHA256", data))>>
  ELSE IF a.sha512 THEN <<print_file_hash(BareLabel("SHA512"), file_name(n), Digest("SHA512", data))>>
  ELSE IF a.md5 THEN <<print_file_hash(BareLabel("MD5"), file_name(n), Digest("MD5", data))>>
  ELSE <<>>

\* ------------------------------------------------------------- run state
InitRun == [pc |-> "parse", log |-> <<>>, exit |-> -1, data |-> None, cur |-> None]

Emit(r, evs) == [r EXCEPT !.log = @ \o evs]
Goto(r, pc) == [r EXCEPT !.pc = pc]
\* The process ends with the given exit status.
Halt(r, code) == [r EXCEPT !.pc = "done", !.exit = code]

\* Names the directory iterator has already yielded.
Yielded(r) == {r.log[i].subject : i \in {j \in 1..Len(r.log) : r.log[j].kind = "next_entry" /\ r.log[j].label = <<"ok">>}}

\* ------------------------------------------------------------------ steps
\* Args::parse(): clap rejects the command line (usage error, status 2)
\* when the positional is required and missing.
ParseStep(a, r) ==
  IF ParseOk(a) THEN Goto(r, "main")
  ELSE Halt(Emit(r, <<Stderr("usage")>>), 2)

\* main: if let Some(dir) .. / if let Some(file) .. / else if args.stdin / else
MainStep_mut(a, r) ==
  IF IsSome(a.file) THEN Goto(r, "read_file")
  ELSE IF IsSome(a.directory) THEN Goto(r, "process_directory")
  ELSE IF a.stdin THEN Goto(r, "read_stdin")
  ELSE Goto(r, "literal")

MainStep(a, r) ==
  IF IsSome(a.directory) THEN Goto(r, "process_directory")
  ELSE IF IsSome(a.file) THEN Goto(r, "read_file")
  ELSE IF a.stdin THEN Goto(r, "read_stdin")
  ELSE Goto(r, "literal")

\* main, file branch: res is fs::read's result (None = Err).
ReadFileStep_mut(a, r, res) ==
  LET noted == Emit(r, IF a.verbose
                         THEN <<Note(TRUE, <<"Reading from file: ", Unwrap(a.file)>>)>>
                         ELSE <<>>)
  IN IF IsSome(res)
       THEN [Goto(Emit(noted, <<Io("read_file", "ok", Unwrap(a.file), res)>>), "calculate_hashes")
               EXCEPT !.data = res]
       ELSE [Goto(Emit(noted, <<Io("read_file", "err", Unwrap(a.file), None), Stderr("io")>>),
                  "calculate_hashes") EXCEPT !.data = Some(<<>>)]

ReadFileStep(a, r, res) ==
  LET noted == Emit(r, IF a.verbose
                         THEN <<Note(TRUE, <<"Reading from file: ", Unwrap(a.file)>>)>>
                         ELSE <<>>)
  IN IF IsSome(res)
       THEN [Goto(Emit(noted, <<Io("read_file", "ok", Unwrap(a.file), res)>>), "calculate_hashes")
               EXCEPT !.data = res]
       ELSE Halt(Emit(noted, <<Io("read_file", "err", Unwrap(a.file), None), Stderr("io")>>), 1)

\* main, stdin branch: res is read_to_end's result (None = Err).
ReadStdinStep(a, r, res) ==
  LET noted == Emit(r, IF a.verbose
                         THEN <<Note(TRUE, <<"Reading from stdin...">>)>>
                         ELSE <<>>)
  IN IF IsSome(res)
       THEN [Goto(Emit(noted, <<Io("read_stdin", "ok", <<>>, res)>>), "calculate_hashes")
               EXCEPT !.data = res]
       ELSE Halt(Emit(noted, <<Io("read_stdin", "err", <<>>, None), Stderr("io")>>), 1)

\* main, literal branch: args.input.as_ref().unwrap().as_bytes().to_vec();
\* unwrap on None panics (status 101).
LiteralStep(a, r) ==
  IF IsSome(a.input)
    THEN [Goto(Emit(r, <<Io("literal", "ok", <<>>, a.input)>>), "calculate_hashes")
            EXCEPT !.data = a.input]
    ELSE Halt(Emit(r, <<Stderr("panic")>>), 101)

\* calculate_hashes(&data, &args); Ok(())
CalculateHashesStep(a, r) ==
  Halt(Emit(r, calculate_hashes(Unwrap(r.data), a)), 0)

\* process_directory: the selected_count check.
ValidateStep(a, r) ==
  IF selected_count(a) /= 1
    THEN Halt(Emit(r, <<Stderr("validation")>>), 1)
    ELSE Goto(r, "read_dir")

\* fs::read_dir(dir)?
ReadDirStep(a, r, ok) ==
  IF ok THEN Goto(Emit(r, <<Io("read_dir", "ok", Unwrap(a.directory), None)>>), "next_entry")
  ELSE Halt(Emit(r, <<Io("read_dir", "err", Unwrap(a.directory), None), Stderr("io")>>), 1)

\* One turn of the for loop up to the is_dir test: the iterator ends
\* (Ok(()) is returned), yields Err (entry?), or yields an entry.
NextEntryStep(a, r, res) ==
  CASE res.tag = "end" -> Halt(r, 0)
    [] res.tag = "err" -> Halt(Emit(r, <<Io("next_entry", "err", <<>>, None), Stderr("io")>>), 1)
    [] res.tag = "entry" ->
         LET seen == Emit(r, <<Io("next_entry", "ok", res.name, Some(res.kind))>>)
         IN IF is_dir(res.kind)
              THEN seen
              ELSE [Goto(seen, "hash_entry") EXCEPT !.cur = Some(res.name)]

\* The rest of the loop body: fs::read(&path)?, file_name, hash and print.
HashEntryStep_mut(a, r, res) ==
  LET n == Unwrap(r.cur)
  IN IF IsSome(res)
       THEN [Goto(Emit(r, <<Io("read", "ok", n, res)>> \o print_entry(a, n, Unwrap(res))),
                  "next_entry") EXCEPT !.cur = None]
       ELSE [Goto(Emit(r, <<Io("read", "err", n, None), Stderr("io")>>),
                  "next_entry") EXCEPT !.cur = None]

HashEntryStep(a, r, res) ==
  LET n == Unwrap(r.cur)
  IN IF IsSome(res)
       THEN [Goto(Emit(r, <<Io("read", "ok", n, res)>> \o print_entry(a, n, Unwrap(res))),
                  "next_entry") EXCEPT !.cur = None]
       ELSE Halt(Emit(r, <<Io("read", "err", n, None), Stderr("io")>>), 1)

\* ----------------------------------------------------------- environment
ReadResults == {None} \cup {Some(p) : p \in Payloads}

NoEntry(tag) == [tag |-> tag, name |-> <<>>, kind |-> "none"]

\* What the directory iterator can do next.
IterResults(r) ==
  {NoEntry("end"), NoEntry("err")}
  \cup (IF Cardinality(Yielded(r)) < MaxEntries
          THEN {[tag |-> "entry", name |-> n, kind |-> k] : n \in Names \ Yielded(r), k \in Kinds}
          ELSE {})

Flip(a) == [a EXCEPT !.verbose = ~@]

\* ---------------------------------------------------------------- actions
Init ==
  /\ args \in ArgsSet
  /\ run = InitRun
  /\ twin = InitRun

Parse ==
  /\ run.pc = "parse"
  /\ run' = ParseStep(args, run)
  /\ twin' = ParseStep(Flip(args), twin)
  /\ UNCHANGED args

Main ==
  /\ run.pc = "main"
  /\ run' = MainStep(args, run)
  /\ twin' = MainStep(Flip(args), twin)
  /\ UNCHANGED args

ReadFile ==
  /\ run.pc = "read_file"
  /\ \E res \in ReadResults :
       /\ run' = ReadFileStep(args, run, res)
       /\ twin' = ReadFileStep(Flip(args), twin, res)
  /\ UNCHANGED args

ReadStdin ==
  /\ run.pc = "read_stdin"
  /\ \E res \in ReadResults :
       /\ run' = ReadStdinStep(args, run, res)
       /\ twin' = ReadStdinStep(Flip(args), twin, res)
  /\ UNCHANGED args

Literal ==
  /\ run.pc = "literal"
  /\ run' = LiteralStep(args, run)
  /\ twin' = LiteralStep(Flip(args), twin)
  /\ UNCHANGED args

CalculateHashes ==
  /\ run.pc = "calculate_hashes"
  /\ run' = CalculateHashesStep(args, run)
  /\ twin' = CalculateHashesStep(Flip(args), twin)
  /\ UNCHANGED args

Validate ==
  /\ run.pc = "process_directory"
  /\ run' = ValidateStep(args, run)
  /\ twin' = ValidateStep(Flip(args), twin)
  /\ UNCHANGED args

ReadDir ==
  /\ run.pc = "read_dir"
  /\ \E ok \in BOOLEAN :
       /\ run' = ReadDirStep(args, run, ok)
       /\ twin' = ReadDirStep(Flip(args), twin, ok)
  /\ UNCHANGED args

NextEntry ==
  /\ run.pc = "next_entry"
  /\ \E res \in IterResults(run) :
       /\ run' = NextEntryStep(args, run, res)
       /\ twin' = NextEntryStep(Flip(args), twin, res)
  /\ UNCHANGED args

HashEntry ==
  /\ run.pc = "hash_entry"
  /\ \E res \in ReadResults :
       /\ run' = HashEntryStep(args, run, res)
       /\ twin' = HashEntryStep(Flip(args), twin, res)
  /\ UNCHANGED args

Next ==
  \/ Parse
  \/ Main
  \/ ReadFile
  \/ ReadStdin
  \/ Literal
  \/ CalculateHashes
  \/ Validate
  \/ ReadDir
  \/ NextEntry
  \/ HashEntry

Spec == Init /\ [][Next]_vars

TypeOK ==
  /\ args \in ArgsSet
  /\ run.pc \in {"parse", "main", "read_file", "read_stdin", "literal",
                 "calculate_hashes", "process_directory", "read_dir",
                 "next_entry", "hash_entry", "done"}
  /\ run.exit \in {-1, 0, 1, 2, 101}
  /\ (run.pc = "done") <=> (run.exit /= -1)

\* ------------------------------------------------- vocabulary of the claims
\* Positions of the log holding events of the given kinds.
At(r, kinds) == {i \in 1..Len(r.log) : r.log[i].kind \in kinds}
IsDigest(e) == e.kind = "digest"
Digests(r) == SelectSeq(r.log, IsDigest)
IsStdout(e) == e.kind \in {"note", "digest"}
Stdout(r) == SelectSeq(r.log, IsStdout)
DirIoKinds == {"read_dir", "next_entry", "read"}
IoKinds == DirIoKinds \cup {"read_file", "read_stdin"}
IoFailed(r) == \E i \in At(r, IoKinds) : r.log[i].label = <<"err">>

\* The algorithm flags that are set.
Flagged(a) ==
  {alg \in Algorithms : \/ alg = "SHA1" /\ a.sha1
                        \/ alg = "SHA256" /\ a.sha256
                        \/ alg = "SHA512" /\ a.sha512
                        \/ alg = "MD5" /\ a.md5}
DirectoryMode == IsSome(args.directory)
Finished(r) == r.pc = "done"
Succeeded(r) == r.pc = "done" /\ r.exit = 0
AlgOf(e) == e.body.hex.alg

\* C1: with --directory and a number of set algorithm flags other than 1,
\* the process exits with code 1 before any directory enumeration, file
\* read or hashing: the log never holds an I/O event or a digest line.
C1_DirectoryValidation ==
  (DirectoryMode /\ Cardinality(Flagged(args)) /= 1) =>
    /\ At(run, IoKinds \cup {"literal", "digest", "note"}) = {}
    /\ run.pc \in {"parse", "main", "process_directory", "done"}
    /\ Finished(run) => run.exit = 1

C1_Witness ==
  /\ DirectoryMode
  /\ Cardinality(Flagged(args)) = 2
  /\ Finished(run)
  /\ run.exit = 1
  /\ run.log = <<Stderr("validation")>>

\* C2: a single-input run whose payload was read emits, for every
\* algorithm, exactly one result if the algorithm is in the effective set
\* (all four when no flag is set, else the flagged ones) and none otherwise.
EffectiveSet(a) == IF Flagged(a) = {} THEN Algorithms ELSE Flagged(a)

C2_EffectiveAlgorithmSet ==
  (~DirectoryMode /\ Succeeded(run)) =>
    \A alg \in Algorithms :
      Cardinality({i \in At(run, {"digest"}) : AlgOf(run.log[i]) = alg})
        = IF alg \in EffectiveSet(args) THEN 1 ELSE 0

C2_Witness ==
  /\ ~DirectoryMode
  /\ Succeeded(run)
  /\ Flagged(args) = {"MD5"}
  /\ Len(Digests(run)) = 1
  /\ AlgOf(Digests(run)[1]) = "MD5"

\* C3: in single-input mode the results appear in the relative order
\* SHA1, SHA256, SHA512, MD5 for every flag combination.
Rank(alg) ==
  CASE alg = "SHA1" -> 1 [] alg = "SHA256" -> 2 [] alg = "SHA512" -> 3 [] alg = "MD5" -> 4

C3_CanonicalOrder ==
  ~DirectoryMode =>
    \A i, j \in 1..Len(Digests(run)) :
      i < j => Rank(AlgOf(Digests(run)[i])) <= Rank(AlgOf(Digests(run)[j]))

C3_Witness ==
  /\ ~DirectoryMode
  /\ Succeeded(run)
  /\ Flagged(args) = {"MD5", "SHA1"}
  /\ Len(Digests(run)) = 2
  /\ AlgOf(Digests(run)[1]) = "SHA1"
  /\ AlgOf(Digests(run)[2]) = "MD5"

\* Directory runs: the entries the iterator yielded, in order, and the
\* statement that the results are exactly those of the chosen entries.
IsEntry(e) == e.kind = "next_entry" /\ e.label = <<"ok">>
Entries(r) == SelectSeq(r.log, IsEntry)
IsReadOk(e) == e.kind = "read" /\ e.label = <<"ok">>
ReadsOk(r) == SelectSeq(r.log, IsReadOk)
KindOf(e) == e.body[1]
Utf8Names == {n \in Names : \A i \in 1..Len(n) : n[i] < 128}

\* A directory entry never aborts the loop and is never descended into.
DirectoriesSkipped(r) ==
  /\ Cardinality(At(r, {"read_dir"})) <= 1
  /\ \A i \in At(r, {"read"}) : \A j \in At(r, {"next_entry"}) :
       (r.log[j].label = <<"ok">> /\ r.log[j].subject = r.log[i].subject)
         => KindOf(r.log[j]) /= "dir"
  /\ (r.log /= <<>> /\ IsEntry(r.log[Len(r.log)]) /\ KindOf(r.log[Len(r.log)]) = "dir")
       => (r.pc = "next_entry" \/ Succeeded(r))

IsRegular(e) == KindOf(e) = "file"
IsNotDir(e) == KindOf(e) /= "dir"

\* C4 as stated: one result per regular file, with the flagged algorithm
\* and the file's base name as subject.
C4_OnePerRegularFile ==
  (DirectoryMode /\ Succeeded(run)) =>
    LET files == SelectSeq(Entries(run), IsRegular)
        out == Digests(run)
    IN /\ Len(out) = Len(files)
       /\ \A i \in 1..Len(out) :
            /\ out[i].subject = files[i].subject
            /\ Flagged(args) = {AlgOf(out[i])}
       /\ DirectoriesSkipped(run)

\* C4 (amended): one result per entry that is not a directory (regular
\* file or any other non-directory), with the flagged algorithm over the
\* bytes read, and as subject the base name, or "unknown" when the base
\* name is not valid UTF-8; directories are skipped and do not stop the loop.
C4_OnePerNonDirectoryEntry ==
  (DirectoryMode /\ Succeeded(run)) =>
    LET files == SelectSeq(Entries(run), IsNotDir)
        reads == ReadsOk(run)
        out == Digests(run)
    IN /\ Len(out) = Len(files)
       /\ Len(reads) = Len(files)
       /\ \A i \in 1..Len(out) :
            /\ out[i].subject = IF files[i].subject \in Utf8Names
                                  THEN files[i].subject ELSE Unknown
            /\ Flagged(args) = {AlgOf(out[i])}
            /\ reads[i].subject = files[i].subject
            /\ out[i].body.hex.of = Unwrap(reads[i].body)
       /\ DirectoriesSkipped(run)

C4_Witness ==
  /\ DirectoryMode
  /\ Succeeded(run)
  /\ Len(Entries(run)) = 2
  /\ KindOf(Entries(run)[1]) = "dir"
  /\ KindOf(Entries(run)[2]) = "file"
  /\ Entries(run)[2].subject = <<255>>
  /\ Len(Digests(run)) = 1
  /\ Digests(run)[1].subject = Unknown

\* C5: in directory mode a failure of read_dir, of fetching an entry or of
\* reading an entry ends the run at once with exit code 1: nothing but the
\* error message follows the failing call, and every entry read before it
\* had its result emitted right after its read, before any later I/O.
C5_AbortOnFirstError ==
  DirectoryMode =>
    /\ \A i \in At(run, DirIoKinds) :
         run.log[i].label = <<"err">> =>
           /\ Finished(run) /\ run.exit = 1
           /\ \A j \in (i + 1)..Len(run.log) : run.log[j].kind = "stderr"
    /\ \A i \in At(run, {"read"}) :
         run.log[i].label = <<"ok">> =>
           /\ i < Len(run.log)
           /\ IsDigest(run.log[i + 1])
           /\ run.log[i + 1].body.hex.of = Unwrap(run.log[i].body)
    /\ Len(Digests(run)) = Len(ReadsOk(run))

C5_Witness ==
  /\ DirectoryMode
  /\ Finished(run)
  /\ run.exit = 1
  /\ Len(Digests(run)) = 1
  /\ Len(Entries(run)) = 2
  /\ run.log[Len(run.log) - 1].kind = "read"
  /\ run.log[Len(run.log) - 1].label = <<"err">>

\* C6: a failed --file or stdin read ends the run with exit code 1 and no
\* digest line, whatever flags are set; a finished run with no I/O failure
\* and no validation failure has exit code 0.
C6_ReadFailure ==
  /\ (\E i \in At(run, {"read_file", "read_stdin"}) : run.log[i].label = <<"err">>) =>
       /\ Finished(run) /\ run.exit = 1
       /\ Digests(run) = <<>>
  /\ (Finished(run) /\ ~IoFailed(run)
        /\ \A i \in At(run, {"stderr"}) : run.log[i].label \notin {<<"validation">>, <<"usage">>})
       => run.exit = 0

C6_Witness ==
  /\ ~DirectoryMode
  /\ IsSome(args.file)
  /\ Flagged(args) = {"SHA1", "SHA512"}
  /\ Finished(run)
  /\ run.exit = 1
  /\ \E i \in At(run, {"read_file"}) : run.log[i].label = <<"err">>

\* Runs that differ only in verbose emit the same results and exit alike.
SameResults == Digests(run) = Digests(twin) /\ run.exit = twin.exit /\ run.pc = twin.pc

\* The k-th stdout chunk of r starts a line / is a whole line.
StartsLine(r, k) == k = 1 \/ Stdout(r)[k - 1].nl
OwnLine(r, k) == StartsLine(r, k) /\ Stdout(r)[k].nl

\* C7 as stated: verbose changes neither the results nor the exit code, and
\* every result is its own output line LABEL | SUBJECT-OR-DASH | HEX_DIGEST.
C7_VerboseOwnLine ==
  /\ SameResults
  /\ \A k \in 1..Len(Stdout(run)) : IsDigest(Stdout(run)[k]) => OwnLine(run, k)

\* C7 (amended): verbose changes neither the results nor the exit code;
\* every result ends its output line, and is the whole line except in a
\* verbose single-input run, where the line starts with the advisory
\* "Calculating <ALG>... " printed without a newline.
C7_VerboseSameResults ==
  /\ SameResults
  /\ \A k \in 1..Len(Stdout(run)) :
       IsDigest(Stdout(run)[k]) =>
         /\ Stdout(run)[k].nl
         /\ IF args.verbose /\ ~DirectoryMode
              THEN /\ k > 1
                   /\ Stdout(run)[k - 1] = Note(FALSE, <<"Calculating ", AlgOf(Stdout(run)[k]), "... ">>)
                   /\ StartsLine(run, k - 1)
              ELSE OwnLine(run, k)

C7_Witness ==
  /\ args.verbose
  /\ ~DirectoryMode
  /\ Succeeded(run)
  /\ Succeeded(twin)
  /\ Len(Digests(run)) = 4
  /\ Len(Stdout(run)) > Len(Stdout(twin))
  /\ Digests(twin) = Stdout(twin)

\* Width of the padded labels ("SHA1    ").
LabelWidth == 8

\* C8 as stated: every result line, in both modes, carries a label of the
\* same fixed width.
C8_FixedWidthLabel ==
  \A i \in At(run, {"digest"}) : Len(run.log[i].label) = LabelWidth

\* The algorithm's name, character by character.
NameChars(alg) ==
  CASE alg = "SHA1" -> <<"S", "H", "A", "1">>
    [] alg = "SHA256" -> <<"S", "H", "A", "2", "5", "6">>
    [] alg = "SHA512" -> <<"S", "H", "A", "5", "1", "2">>
    [] alg = "MD5" -> <<"M", "D", "5">>

\* C8 (amended): in single-input mode every label is the algorithm's name
\* padded with spaces to 8 characters; in directory mode it is the bare
\* name (4, 6, 6 or 3 characters); all labels of one run have one width.
C8_LabelWidthPerMode ==
  /\ \A i \in At(run, {"digest"}) :
       LET l == run.log[i].label
           n == NameChars(AlgOf(run.log[i]))
       IN IF DirectoryMode
            THEN l = n
            ELSE /\ Len(l) = LabelWidth
                 /\ SubSeq(l, 1, Len(n)) = n
                 /\ \A k \in (Len(n) + 1)..LabelWidth : l[k] = " "
  /\ \A i, j \in At(run, {"digest"}) : Len(run.log[i].label) = Len(run.log[j].label)

C8_Witness ==
  /\ DirectoryMode
  /\ Succeeded(run)
  /\ Len(Digests(run)) = 2
  /\ \A i \in 1..2 : Digests(run)[i].label = <<"M", "D", "5">>

\* The source main selects: directory, then file, then stdin, then literal.
Active(a) ==
  IF IsSome(a.directory) THEN "directory"
  ELSE IF IsSome(a.file) THEN "file"
  ELSE IF a.stdin THEN "stdin"
  ELSE "literal"

SourceOf(kind) ==
  CASE kind \in DirIoKinds -> "directory"
    [] kind = "read_file" -> "file"
    [] kind = "read_stdin" -> "stdin"
    [] kind = "literal" -> "literal"

Accessed(r) == {SourceOf(r.log[i].kind) : i \in At(r, IoKinds \cup {"literal"})}

\* C9: whatever input options are supplied together, the run reads only
\* the source chosen by the precedence directory, file, stdin, literal;
\* with --directory, calculate_hashes never runs.
C9_OneActiveSource ==
  /\ Accessed(run) \subseteq {Active(args)}
  /\ Succeeded(run) => Accessed(run) = {Active(args)}
  /\ DirectoryMode =>
       /\ run.pc /= "calculate_hashes"
       /\ \A i \in At(run, {"digest"}) : run.log[i].subject /= Dash
  /\ ~DirectoryMode => \A i \in At(run, {"digest"}) : run.log[i].subject = Dash

C9_Witness ==
  /\ IsSome(args.directory) /\ IsSome(args.file) /\ args.stdin /\ IsSome(args.input)
  /\ Succeeded(run)
  /\ Len(Digests(run)) = 1
  /\ Accessed(run) = {"directory"}

\* C10: the literal branch is only reached with the positional present,
\* so the unwrap never panics and the payload is the literal's bytes.
C10_LiteralNeverFails ==
  /\ run.exit /= 101
  /\ run.pc = "literal" => IsSome(args.input)
  /\ At(run, {"literal"}) /= {} => (IsSome(run.data) /\ run.data = args.input)

C10_Witness ==
  /\ Active(args) = "literal"
  /\ Succeeded(run)
  /\ At(run, {"literal"}) /= {}
  /\ Unwrap(run.data) = <<97, 98, 99>>
  /\ Len(Digests(run)) = 4
====
